---- MODULE Spec2Model ----
(***************************************************************************)
(* Model of the synthetic e-commerce pipeline:                             *)
(*   generate_data.py   - the entity generator and the CSV writer          *)
(*   ingest_to_sqlite.py - the schema loader and the CSV importer          *)
(*   run.query.py       - the query runner                                 *)
(* Money is counted in cents.  A Python float holding a sum of prices is   *)
(* counted in ulps (UlpsPerCent to the cent) so that the rounding error of *)
(* float arithmetic and round(total, 2) are both visible.                  *)
(***************************************************************************)
EXTENDS Integers, Sequences, FiniteSets, TLC

VARIABLES
    cfg,          \* NUM_CUSTOMERS, NUM_PRODUCTS, NUM_ORDERS, MAX_ITEMS_PER_ORDER
    gpc,          \* position of generate_data.main
    customers, products, orders, order_items, payments,   \* main's locals
    totals,       \* generate_payments' float total of each order, in ulps
    files,        \* the five CSV files under data/ (NoFile when absent)
    damage,       \* the field of a CSV file that was damaged, if one was
    db,           \* the store file ecom.db
    lpc,          \* position of the loader: idle, loading, done, closed, error
    lmode,        \* who calls load_csv: ingest_to_sqlite.main or a script
    loaded,       \* the tables this run's load_csv calls have filled
    lerr,         \* the error that ended the loader's last run
    prior,        \* what the store held when the loader's run began
    input,        \* the CSV files the loader's run reads: pristine or not
    qpc,          \* position of run_query: idle, executed, error
    qview         \* the store as run_query's connection sees it

gvars == <<cfg, gpc, customers, products, orders, order_items, payments, totals>>
lvars == <<db, lpc, lmode, loaded, lerr, prior, input>>
qvars == <<qpc, qview>>
fvars == <<files, damage>>
vars == <<gvars, fvars, lvars, qvars>>

------------------------------------------------------------------------------
(* Bounds of the model *)

\* the four configured counts add up to at most this: in the runs of the
\* generator alone, and in the runs of the whole pipeline
MaxConfigSum == 6
MaxPipelineConfigSum == 5
\* ulps per cent, and the largest rounding error (in ulps) a float sum carries
UlpsPerCent == 1000
MaxUlpErr == 1

\* prices the generator may draw: cents in [5.00, 500.00]
PriceSamples == {500, 1905}

MinQuantity == 1
MaxQuantity == 3

\* an absent CSV file
NoFile == [exists |-> FALSE, header |-> <<>>, rows |-> <<>>]
Tables == {"customers", "products", "orders", "order_items", "payments"}

Configs(max) ==
    { c \in [customers : 0..max, products : 0..max,
             orders : 0..max, max_items : 0..max] :
        c.customers + c.products + c.orders + c.max_items <= max }

------------------------------------------------------------------------------
(* Text of numbers, as csv.DictWriter writes them and int()/float() read them *)

DigitChars == <<"0", "1", "2", "3", "4", "5", "6", "7", "8", "9">>

IsDigit(c) == \E d \in 1..10 : DigitChars[d] = c
DigitVal(c) == (CHOOSE d \in 1..10 : DigitChars[d] = c) - 1

\* str(n) of a non-negative int
RECURSIVE IntToStr(_)
IntToStr(n) ==
    IF n < 10 THEN <<DigitChars[n + 1]>>
    ELSE IntToStr(n \div 10) \o <<DigitChars[(n % 10) + 1]>>

ValueError == "ValueError"
KeyError == "KeyError"
NoError == "none"

RECURSIVE DigitsValue(_)
DigitsValue(s) ==
    IF s = <<>> THEN 0
    ELSE 10 * DigitsValue(SubSeq(s, 1, Len(s) - 1)) + DigitVal(s[Len(s)])

AllDigits(s) == Len(s) >= 1 /\ \A i \in 1..Len(s) : IsDigit(s[i])

Value(v) == [error |-> NoError, value |-> v]
Raise(e) == [error |-> e, value |-> 0]

\* int(s): the value, or ValueError
StrToInt(s) == IF AllDigits(s) THEN Value(DigitsValue(s)) ELSE Raise(ValueError)

\* str(x) of a float with at most two decimals, x given in cents:
\* the shortest repr, always with a fractional part ("5.0", "12.5", "19.05")
FloatToStr(c) ==
    IntToStr(c \div 100) \o <<".">> \o
        (IF c % 100 = 0 THEN <<"0">>
         ELSE IF c % 10 = 0 THEN <<DigitChars[((c % 100) \div 10) + 1]>>
         ELSE <<DigitChars[((c % 100) \div 10) + 1], DigitChars[(c % 10) + 1]>>)

\* float(s), in cents: digits, optionally a point and one or two more digits
StrToFloat(s) ==
    LET dots == { i \in 1..Len(s) : s[i] = "." } IN
    IF dots = {}
    THEN (IF AllDigits(s) THEN Value(100 * DigitsValue(s)) ELSE Raise(ValueError))
    ELSE IF Cardinality(dots) > 1 THEN Raise(ValueError)
    ELSE LET d == CHOOSE i \in dots : TRUE
             ip == SubSeq(s, 1, d - 1)
             fp == SubSeq(s, d + 1, Len(s))
         IN  IF AllDigits(ip) /\ AllDigits(fp) /\ Len(fp) <= 2
             THEN Value(100 * DigitsValue(ip) +
                        (IF Len(fp) = 1 THEN 10 * DigitsValue(fp)
                         ELSE DigitsValue(fp)))
             ELSE Raise(ValueError)

------------------------------------------------------------------------------
(* generate_data.py *)

RECURSIVE SumSeq(_)
SumSeq(s) == IF s = <<>> THEN 0 ELSE Head(s) + SumSeq(Tail(s))

Min(a, b) == IF a <= b THEN a ELSE b

\* generate_customers(count)
generate_customers(count) == [idx \in 1..count |-> [customer_id |-> idx]]

\* generate_products(count): the lists it may return, one per draw of prices
generate_products(count) ==
    { [idx \in 1..count |-> [product_id |-> idx, price |-> pr[idx]]] :
        pr \in [1..count -> PriceSamples] }

\* generate_orders(count, customers): random.choice(customers) raises
\* IndexError on an empty list
generate_orders_raises(count, custs) == count >= 1 /\ custs = <<>>

\* generate_orders taking the loop index for the customer id
generate_orders_by_index(count, custs) ==
    { [idx \in 1..count |-> [order_id |-> idx, customer_id |-> idx]] }

generate_orders(count, custs) ==
    { [idx \in 1..count |-> [order_id |-> idx,
                             customer_id |-> custs[ch[idx]].customer_id]] :
        ch \in [1..count -> 1..Len(custs)] }

\* random.sample(products, k): the sequences of k distinct positions
\* random.choices in place of random.sample: products may repeat
SampleWithReplacement(n, k) == [1..k -> 1..n]

Sample(n, k) ==
    { s \in [1..k -> 1..n] : \A i, j \in 1..k : i # j => s[i] # s[j] }

\* product_lookup[product_id]
product_lookup(prods, pid) ==
    CHOOSE p \in { prods[i] : i \in 1..Len(prods) } : p.product_id = pid

\* what one iteration of the loop over orders may draw: the sampled products
\* and a quantity for each
OrderDraws(prods, max_items) ==
    UNION { UNION { { [chosen |-> s, quantity |-> q] :
                        q \in [1..Len(s) -> MinQuantity..MaxQuantity] } :
                     s \in Sample(Len(prods), Min(num_items, Len(prods))) } :
            num_items \in 1..max_items }

\* random.randint(1, max_items_per_order) raises ValueError on an empty range
generate_order_items_raises(ords, max_items) == ords # <<>> /\ max_items < 1

\* the items of one order all given the id the order starts with
ItemsOfOrderOneId(order, prods, draw, first_id) ==
    [k \in 1..Len(draw.chosen) |->
        LET product == prods[draw.chosen[k]] IN
        [order_item_id |-> first_id,
         order_id |-> order.order_id,
         product_id |-> product.product_id,
         quantity |-> draw.quantity[k],
         unit_price |-> product.price]]

\* the order items of one order, numbered from first_id
ItemsOfOrder(order, prods, draw, first_id) ==
    [k \in 1..Len(draw.chosen) |->
        LET product == prods[draw.chosen[k]] IN
        [order_item_id |-> first_id + k - 1,
         order_id |-> order.order_id,
         product_id |-> product.product_id,
         quantity |-> draw.quantity[k],
         unit_price |-> product_lookup(prods, product.product_id).price]]

RECURSIVE ItemsFrom(_, _, _, _, _)
ItemsFrom(ords, prods, draws, i, order_item_id) ==
    IF i > Len(ords) THEN <<>>
    ELSE LET its == ItemsOfOrder(ords[i], prods, draws[i], order_item_id) IN
         its \o ItemsFrom(ords, prods, draws, i + 1, order_item_id + Len(its))

generate_order_items(ords, prods, max_items) ==
    { ItemsFrom(ords, prods, draws, 1, 1) :
        draws \in [1..Len(ords) -> OrderDraws(prods, max_items)] }

\* items_by_order.get(order_id, [])
items_by_order(items, oid) == SelectSeq(items, LAMBDA it : it.order_id = oid)

\* the sum over the items of quantity x unit_price, in cents
ItemSum(items) ==
    SumSeq([k \in 1..Len(items) |-> items[k].quantity * items[k].unit_price])

\* the float arithmetic of the sum is exact: every price is a multiple of a
\* quarter (a dyadic fraction), or there is one item taken once or twice
ExactInFloat(items) ==
    \/ \A k \in 1..Len(items) : items[k].unit_price % 25 = 0
    \/ Len(items) = 1 /\ items[1].quantity \in {1, 2}

\* sum(item.quantity * item.unit_price for item in items) as a float, in ulps:
\* the int 0 for no items, otherwise the sum, off by a rounding error unless
\* the arithmetic is exact (3 * 19.05 is 57.150000000000006)
FloatTotals(items) ==
    IF items = <<>> THEN {0}
    ELSE IF ExactInFloat(items) THEN {ItemSum(items) * UlpsPerCent}
    ELSE { ItemSum(items) * UlpsPerCent + e : e \in (0 - MaxUlpErr)..MaxUlpErr }

\* cutting the total off after two decimals instead of rounding it
Truncate2(total) == total \div UlpsPerCent

\* round(total, 2), in cents
Round2(total) == (total + (UlpsPerCent \div 2)) \div UlpsPerCent

RECURSIVE PaymentsFrom(_, _, _, _, _)
PaymentsFrom(ords, items, tots, i, payment_id) ==
    IF i > Len(ords) THEN <<>>
    ELSE IF tots[i] = 0
         THEN PaymentsFrom(ords, items, tots, i + 1, payment_id)
         ELSE <<[payment_id |-> payment_id,
                 order_id |-> ords[i].order_id,
                 amount |-> Round2(tots[i])]>>
              \o PaymentsFrom(ords, items, tots, i + 1, payment_id + 1)

\* the totals the loop of generate_payments may compute, one per order
OrderTotals(ords, items) ==
    LET perOrder == [i \in 1..Len(ords) |->
                       FloatTotals(items_by_order(items, ords[i].order_id))]
    IN  { t \in [1..Len(ords) -> UNION { perOrder[i] : i \in 1..Len(ords) }] :
            \A i \in 1..Len(ords) : t[i] \in perOrder[i] }

\* generate_payments(orders, order_items), the totals being tots
generate_payments(ords, items, tots) == PaymentsFrom(ords, items, tots, 1, 1)

\* the columns main passes to write_csv (the text and date columns are left out)
Headers ==
    [customers   |-> <<"customer_id">>,
     products    |-> <<"product_id", "price">>,
     orders      |-> <<"order_id", "customer_id">>,
     order_items |-> <<"order_item_id", "order_id", "product_id", "quantity",
                       "unit_price">>,
     payments    |-> <<"payment_id", "order_id", "amount">>]

\* the columns whose dataclass field is a float
FloatColumns == {"price", "unit_price", "amount"}

\* str(value) as csv.DictWriter writes a field
FieldToStr(column, value) ==
    IF column \in FloatColumns THEN FloatToStr(value) ELSE IntToStr(value)

\* write_csv(path, rows, headers): the header row, then one row per record
write_csv(rows, headers) ==
    [exists |-> TRUE,
     header |-> headers,
     rows   |-> [i \in 1..Len(rows) |->
                   [k \in 1..Len(headers) |->
                      FieldToStr(headers[k], rows[i][headers[k]])]]]

------------------------------------------------------------------------------
(* ingest_to_sqlite.py: the store *)

\* the store file ecom.db: whether it exists, whether the schema exists and
\* the committed rows of each table
NoStore == [exists |-> FALSE, schema |-> FALSE, rows |-> [t \in Tables |-> {}]]
EmptyStore == [exists |-> TRUE, schema |-> FALSE, rows |-> [t \in Tables |-> {}]]

\* reset_database leaving the file where it is
reset_database_keep(d) == d

\* reset_database(db_path): unlink the file if it exists
reset_database(d) == IF d.exists THEN NoStore ELSE d

\* sqlite3.connect(db_path) creates the file when it is absent
sqlite3_connect(d) == IF d.exists THEN d ELSE EmptyStore

\* get_connection without the PRAGMA
get_connection_no_pragma == [foreign_keys |-> FALSE]

\* get_connection(db_path): the connection's settings after the PRAGMA
get_connection == [foreign_keys |-> TRUE]

\* run_query's sqlite3.connect("ecom.db"): no PRAGMA is issued, so the
\* connection keeps SQLite's default, foreign keys off
run_query_connection == [foreign_keys |-> FALSE]

\* the schema of create_tables
PrimaryKey ==
    [customers |-> "customer_id", products |-> "product_id",
     orders |-> "order_id", order_items |-> "order_item_id",
     payments |-> "payment_id"]

\* FOREIGN KEY (column) REFERENCES parent (key) [ON DELETE CASCADE]
ForeignKeys ==
    [customers   |-> {},
     products    |-> {},
     orders      |-> {[column |-> "customer_id", parent |-> "customers",
                       cascade |-> FALSE]},
     order_items |-> {[column |-> "order_id", parent |-> "orders",
                       cascade |-> TRUE],
                      [column |-> "product_id", parent |-> "products",
                       cascade |-> FALSE]},
     payments    |-> {[column |-> "order_id", parent |-> "orders",
                       cascade |-> TRUE]}]

OperationalError == "OperationalError"
IntegrityError == "IntegrityError"
FileNotFoundError == "FileNotFoundError"

\* create_tables(conn): CREATE TABLE fails when the table exists already
create_tables(d) ==
    IF d.schema THEN [error |-> OperationalError, store |-> d]
    ELSE [error |-> NoError, store |-> [d EXCEPT !.schema = TRUE]]

\* the rows of table t have no row with this primary key yet
PrimaryKeyFree(d, t, row) ==
    \A r \in d.rows[t] : r[PrimaryKey[t]] # row[PrimaryKey[t]]

\* every foreign key of the row has its parent row
ParentsExist(d, t, row) ==
    \A fk \in ForeignKeys[t] :
        \E r \in d.rows[fk.parent] : r[PrimaryKey[fk.parent]] = row[fk.column]

\* no row of the store refers to a missing parent row
ForeignKeysHold(d) ==
    \A t \in Tables : \A row \in d.rows[t] : ParentsExist(d, t, row)

\* conn.executemany(INSERT ...): row after row, stopping at the first row a
\* constraint rejects; count is the number of rows inserted
RECURSIVE ExecuteMany(_, _, _, _, _)
ExecuteMany(conn, d, t, rows, i) ==
    IF i > Len(rows) THEN [error |-> NoError, store |-> d, count |-> i - 1]
    ELSE IF /\ PrimaryKeyFree(d, t, rows[i])
            /\ (conn.foreign_keys => ParentsExist(d, t, rows[i]))
         THEN ExecuteMany(conn, [d EXCEPT !.rows[t] = @ \cup {rows[i]}], t, rows, i + 1)
         ELSE [error |-> IntegrityError, store |-> d, count |-> i - 1]

\* _insert_rows(conn, table, columns, rows): executemany, then commit; when
\* executemany raises, commit is not reached and the store file keeps what
\* was committed before
_insert_rows(conn, d, t, rows) ==
    LET res == ExecuteMany(conn, d, t, rows, 1) IN
    IF res.error = NoError
    THEN [error |-> NoError, store |-> res.store, count |-> res.count]
    ELSE [error |-> res.error, store |-> d, count |-> res.count]

\* the columns and converters main passes to load_csv
LoadColumns ==
    [customers   |-> <<"customer_id">>,
     products    |-> <<"product_id", "price">>,
     orders      |-> <<"order_id", "customer_id">>,
     order_items |-> <<"order_item_id", "order_id", "product_id", "quantity",
                       "unit_price">>,
     payments    |-> <<"payment_id", "order_id", "amount">>]

Converters ==
    [customers   |-> <<"int">>,
     products    |-> <<"int", "float">>,
     orders      |-> <<"int", "int">>,
     order_items |-> <<"int", "int", "int", "int", "float">>,
     payments    |-> <<"int", "int", "float">>]

Convert(converter, s) == IF converter = "int" THEN StrToInt(s) ELSE StrToFloat(s)

\* csv.DictReader: raw[column] of row i, KeyError when the header lacks it
RawField(file, i, column) ==
    LET ks == { k \in 1..Len(file.header) : file.header[k] = column } IN
    IF ks = {} THEN Raise(KeyError) ELSE Value(file.rows[i][CHOOSE k \in ks : TRUE])

\* the list prepared_rows of load_csv, a field that failed holding its error
PreparedRows(file, columns, converters) ==
    [i \in 1..Len(file.rows) |->
        [k \in 1..Len(columns) |->
            LET raw == RawField(file, i, columns[k]) IN
            IF raw.error # NoError THEN raw ELSE Convert(converters[k], raw.value)]]

FirstError(prepared) ==
    LET bad == { e \in {KeyError, ValueError} :
                   \E i \in 1..Len(prepared) : \E k \in 1..Len(prepared[i]) :
                       prepared[i][k].error = e }
    IN  IF bad = {} THEN NoError ELSE CHOOSE e \in bad : TRUE

\* a prepared row as the table row the INSERT names
AsRow(columns, values) ==
    [c \in { columns[k] : k \in 1..Len(columns) } |->
        values[CHOOSE k \in 1..Len(columns) : columns[k] = c].value]

\* load_csv inserting and committing the rows read before the one that fails
\* to convert
load_csv_rowwise(conn, d, file, t, columns, converters) ==
    IF ~file.exists THEN [error |-> FileNotFoundError, store |-> d, count |-> 0]
    ELSE LET prepared == PreparedRows(file, columns, converters)
             bad == { i \in 1..Len(prepared) :
                        \E k \in 1..Len(prepared[i]) : prepared[i][k].error # NoError }
             good == IF bad = {} THEN Len(prepared)
                     ELSE (CHOOSE i \in bad : \A j \in bad : i <= j) - 1
             res == _insert_rows(conn, d, t,
                                 [i \in 1..good |-> AsRow(columns, prepared[i])])
         IN  IF bad = {} \/ res.error # NoError THEN res
             ELSE [error |-> FirstError(prepared), store |-> res.store,
                   count |-> res.count]

\* load_csv(conn, csv_path, table, columns, converters)
load_csv(conn, d, file, t, columns, converters) ==
    IF ~file.exists THEN [error |-> FileNotFoundError, store |-> d, count |-> 0]
    ELSE LET prepared == PreparedRows(file, columns, converters)
             err == FirstError(prepared)
         IN  IF err # NoError THEN [error |-> err, store |-> d, count |-> 0]
             ELSE _insert_rows(conn, d, t,
                               [i \in 1..Len(prepared) |-> AsRow(columns, prepared[i])])

\* main loading order_items before orders
MainOrderItemsFirst ==
    <<"customers", "products", "order_items", "orders", "payments">>

\* the order of the load_csv calls of main
MainOrder == <<"customers", "products", "orders", "order_items", "payments">>

GenCustomers ==
    /\ gpc = "customers"
    /\ customers' = generate_customers(cfg.customers)
    /\ gpc' = "products"
    /\ UNCHANGED <<cfg, products, orders, order_items, payments, totals,
                   fvars, lvars, qvars>>

GenProducts ==
    /\ gpc = "products"
    /\ products' \in generate_products(cfg.products)
    /\ gpc' = "orders"
    /\ UNCHANGED <<cfg, customers, orders, order_items, payments, totals,
                   fvars, lvars, qvars>>

GenOrders ==
    /\ gpc = "orders"
    /\ IF generate_orders_raises(cfg.orders, customers)
       THEN gpc' = "error" /\ UNCHANGED orders
       ELSE /\ orders' \in generate_orders(cfg.orders, customers)
            /\ gpc' = "order_items"
    /\ UNCHANGED <<cfg, customers, products, order_items, payments, totals,
                   fvars, lvars, qvars>>

GenOrderItems ==
    /\ gpc = "order_items"
    /\ IF generate_order_items_raises(orders, cfg.max_items)
       THEN gpc' = "error" /\ UNCHANGED order_items
       ELSE /\ order_items' \in generate_order_items(orders, products, cfg.max_items)
            /\ gpc' = "payments"
    /\ UNCHANGED <<cfg, customers, products, orders, payments, totals,
                   fvars, lvars, qvars>>

GenPayments ==
    /\ gpc = "payments"
    /\ \E tots \in OrderTotals(orders, order_items) :
         /\ totals' = tots
         /\ payments' = generate_payments(orders, order_items, tots)
    /\ gpc' = "write"
    /\ UNCHANGED <<cfg, customers, products, orders, order_items, fvars, lvars, qvars>>

GenWrite ==
    /\ gpc = "write"
    /\ files' = [customers   |-> write_csv(customers, Headers.customers),
                 products    |-> write_csv(products, Headers.products),
                 orders      |-> write_csv(orders, Headers.orders),
                 order_items |-> write_csv(order_items, Headers.order_items),
                 payments    |-> write_csv(payments, Headers.payments)]
    /\ totals' = <<>>
    /\ gpc' = "done"
    /\ UNCHANGED <<cfg, customers, products, orders, order_items, payments, damage,
                   lvars, qvars>>

GeneratorOver == gpc \in {"done", "error"}
LoaderIdle == lpc # "loading"
QueryIdle == qpc = "idle"

NoFailure == [error |-> NoError, table |-> "", count |-> 0]
Failure(e, t, n) == [error |-> e, table |-> t, count |-> n]

\* what reset_database finds at the target path
StoreClass(d) ==
    IF ~d.exists THEN "absent"
    ELSE IF lmode = "main" /\ lpc = "done" THEN "complete"
    ELSE "partial"

\* the CSV files as the loader's run finds them
NoDamage == [table |-> "", row |-> 0, column |-> 0, original |-> <<>>]

InputClass ==
    IF gpc # "done" THEN "missing"
    ELSE IF damage = NoDamage THEN "pristine" ELSE "damaged"

\* ingest_to_sqlite.main, up to create_tables
LoadMainBegin ==
    /\ GeneratorOver /\ LoaderIdle /\ QueryIdle
    /\ LET res == create_tables(sqlite3_connect(reset_database(db))) IN
       /\ db' = res.store
       /\ IF res.error = NoError
          THEN lpc' = "loading" /\ lerr' = NoFailure
          ELSE lpc' = "error" /\ lerr' = Failure(res.error, "", 0)
    /\ lmode' = "main"
    /\ loaded' = {}
    /\ prior' = StoreClass(db)
    /\ input' = InputClass
    /\ UNCHANGED <<gvars, fvars, qvars>>

\* one load_csv call of main, in main's order
LoadMainStep ==
    /\ lpc = "loading" /\ lmode = "main"
    /\ Cardinality(loaded) < Len(MainOrder)
    /\ LET t == MainOrder[Cardinality(loaded) + 1]
           res == load_csv(get_connection, db, files[t], t, LoadColumns[t],
                           Converters[t])
       IN  /\ db' = res.store
           /\ IF res.error = NoError
              THEN /\ loaded' = loaded \cup {t}
                   /\ UNCHANGED <<lpc, lerr>>
              ELSE /\ lpc' = "error"
                   /\ lerr' = Failure(res.error, t, res.count)
                   /\ UNCHANGED loaded
    /\ UNCHANGED <<gvars, fvars, lmode, prior, input, qvars>>

\* conn.close() at the end of main
LoadMainEnd ==
    /\ lpc = "loading" /\ lmode = "main"
    /\ Cardinality(loaded) = Len(MainOrder)
    /\ lpc' = "done"
    /\ UNCHANGED <<gvars, fvars, db, lmode, loaded, lerr, prior, input, qvars>>

\* a script that opens the store with get_connection and create_tables, to
\* call load_csv in an order of its own
LoadScriptBegin ==
    /\ GeneratorOver /\ LoaderIdle /\ QueryIdle
    /\ LET res == create_tables(sqlite3_connect(db)) IN
       /\ db' = res.store
       /\ IF res.error = NoError
          THEN lpc' = "loading" /\ lerr' = NoFailure
          ELSE lpc' = "error" /\ lerr' = Failure(res.error, "", 0)
    /\ lmode' = "script"
    /\ loaded' = {}
    /\ prior' = StoreClass(db)
    /\ input' = InputClass
    /\ UNCHANGED <<gvars, fvars, qvars>>

LoadScriptStep(t) ==
    /\ lpc = "loading" /\ lmode = "script"
    /\ t \notin loaded
    /\ LET res == load_csv(get_connection, db, files[t], t, LoadColumns[t],
                           Converters[t])
       IN  /\ db' = res.store
           /\ IF res.error = NoError
              THEN /\ loaded' = loaded \cup {t}
                   /\ UNCHANGED <<lpc, lerr>>
              ELSE /\ lpc' = "error"
                   /\ lerr' = Failure(res.error, t, res.count)
                   /\ UNCHANGED loaded
    /\ UNCHANGED <<gvars, fvars, lmode, prior, input, qvars>>

LoadScriptEnd ==
    /\ lpc = "loading" /\ lmode = "script"
    /\ lpc' = "closed"
    /\ UNCHANGED <<gvars, fvars, db, lmode, loaded, lerr, prior, input, qvars>>

------------------------------------------------------------------------------
(* run.query.py *)

\* the statements queries.sql may hold
Queries ==
    { [kind |-> "select_count", order_id |-> 0],
      [kind |-> "delete_order", order_id |-> 1],
      [kind |-> "insert_order_item", order_id |-> 0] }

\* DELETE FROM orders WHERE order_id = oid: with foreign keys on, the
\* order_items and payments rows of the order go with it (ON DELETE CASCADE)
DeleteOrder(conn, d, oid) ==
    LET kept(t) ==
            IF t = "orders" THEN { r \in d.rows[t] : r.order_id # oid }
            ELSE IF conn.foreign_keys
                    /\ \E fk \in ForeignKeys[t] : fk.parent = "orders" /\ fk.cascade
                 THEN { r \in d.rows[t] : r.order_id # oid }
                 ELSE d.rows[t]
    IN  [error |-> NoError, store |-> [d EXCEPT !.rows = [t \in Tables |-> kept(t)]]]

\* INSERT INTO order_items of one row for product 1 and the given order
InsertOrderItem(conn, d, oid) ==
    LET res == ExecuteMany(conn, d, "order_items",
                           <<[order_item_id |-> 0, order_id |-> oid,
                              product_id |-> 1, quantity |-> 1,
                              unit_price |-> 500]>>, 1)
    IN  [error |-> res.error, store |-> res.store]

\* cursor.execute(sql_query)
Execute(conn, d, stmt) ==
    IF ~d.schema THEN [error |-> OperationalError, store |-> d]
    ELSE IF stmt.kind = "delete_order" THEN DeleteOrder(conn, d, stmt.order_id)
    ELSE IF stmt.kind = "insert_order_item"
         THEN InsertOrderItem(conn, d, stmt.order_id)
    ELSE [error |-> NoError, store |-> d]

\* run_query up to fetchall: connect, read queries.sql, execute
RunQuery(stmt) ==
    /\ GeneratorOver /\ LoaderIdle /\ QueryIdle
    /\ db' = sqlite3_connect(db)
    /\ LET res == Execute(run_query_connection, sqlite3_connect(db), stmt) IN
       /\ qview' = res.store
       /\ qpc' = IF res.error = NoError THEN "executed" ELSE "error"
    /\ UNCHANGED <<gvars, fvars, lpc, lmode, loaded, lerr, prior, input>>

\* conn.close(), or the exit of the process: nothing was committed, so the
\* store file keeps its content
QueryClose ==
    /\ qpc \in {"executed", "error"}
    /\ qpc' = "idle"
    /\ qview' = NoStore
    /\ UNCHANGED <<gvars, fvars, lvars>>

------------------------------------------------------------------------------
(* The operator between the stages *)

\* the CSV files are the ones the generator wrote
Pristine == gpc = "done" /\ damage = NoDamage

\* a field of a CSV file is damaged before a load
DamageField ==
    /\ Pristine /\ LoaderIdle /\ QueryIdle
    /\ \E t \in Tables : \E i \in 1..Len(files[t].rows) :
         \E k \in 1..Len(files[t].header) :
            /\ files' = [files EXCEPT ![t].rows[i][k] = <<"x">>]
            /\ damage' = [table |-> t, row |-> i, column |-> k,
                          original |-> files[t].rows[i][k]]
    /\ UNCHANGED <<gvars, lvars, qvars>>

\* the damaged field is put right again
RepairField ==
    /\ damage # NoDamage /\ LoaderIdle /\ QueryIdle
    /\ files' = [files EXCEPT ![damage.table].rows[damage.row][damage.column] =
                                  damage.original]
    /\ damage' = NoDamage
    /\ UNCHANGED <<gvars, lvars, qvars>>

------------------------------------------------------------------------------

InitRest ==
    /\ gpc = "customers"
    /\ customers = <<>> /\ products = <<>> /\ orders = <<>>
    /\ order_items = <<>> /\ payments = <<>> /\ totals = <<>>
    /\ files = [t \in Tables |-> NoFile]
    /\ damage = NoDamage
    /\ db = NoStore
    /\ lpc = "idle" /\ lmode = "main" /\ loaded = {} /\ lerr = NoFailure
    /\ prior = "absent" /\ input = "missing"
    /\ qpc = "idle" /\ qview = NoStore

InitGen == cfg \in Configs(MaxConfigSum) /\ InitRest

Init == cfg \in Configs(MaxPipelineConfigSum) /\ InitRest

GenNext ==
    \/ GenCustomers \/ GenProducts \/ GenOrders
    \/ GenOrderItems \/ GenPayments \/ GenWrite

MainNext == LoadMainBegin \/ LoadMainStep \/ LoadMainEnd

ScriptNext ==
    \/ LoadScriptBegin
    \/ \E t \in Tables : LoadScriptStep(t)
    \/ LoadScriptEnd

QueryNext == (\E stmt \in Queries : RunQuery(stmt)) \/ QueryClose

Next == GenNext \/ MainNext \/ QueryNext \/ DamageField \/ RepairField

\* the generator alone
SpecGen == InitGen /\ [][GenNext]_vars

\* the pipeline: generate, load with main, query
Spec == Init /\ [][Next]_vars

\* the generator, then a script that calls load_csv in an order of its own
SpecScript == Init /\ [][GenNext \/ ScriptNext]_vars

------------------------------------------------------------------------------
(* The claims *)

PaymentsMade == gpc \in {"write", "done"}
ItemsMade == gpc \in {"payments", "write", "done"}

ItemsOf(oid) == SelectSeq(order_items, LAMBDA it : it.order_id = oid)
PaymentsOf(oid) == SelectSeq(payments, LAMBDA p : p.order_id = oid)
Range(seq) == { seq[i] : i \in 1..Len(seq) }

\* C1, as claimed: once generate_payments has returned, every payment's
\* amount equals the sum of quantity x unit_price the code computed for its
\* order, an order has at most one payment, and none when that sum is zero
C1_AmountEqualsComputedSum ==
    gpc = "write" =>
        \A i \in 1..Len(orders) :
            LET pays == PaymentsOf(orders[i].order_id) IN
            /\ Len(pays) <= 1
            /\ \A p \in Range(pays) : p.amount * UlpsPerCent = totals[i]
            /\ (totals[i] = 0 => pays = <<>>)

\* C1, amended: once generate_payments has returned, every payment's amount
\* equals the sum of quantity x unit_price of its order's items rounded to
\* two decimals, which is the sum of the items counted in cents; an order has
\* at most one payment, and none when that sum is zero
C1_AmountIsRoundedItemSum ==
    PaymentsMade =>
        \A i \in 1..Len(orders) :
            LET its == ItemsOf(orders[i].order_id)
                pays == PaymentsOf(orders[i].order_id)
            IN  /\ Len(pays) <= 1
                /\ \A p \in Range(pays) : p.amount = ItemSum(its)
                /\ (ItemSum(its) = 0 => pays = <<>>)
                /\ (gpc = "write" =>
                      \A p \in Range(pays) :
                          /\ p.amount * UlpsPerCent - totals[i] <= MaxUlpErr
                          /\ totals[i] - p.amount * UlpsPerCent <= MaxUlpErr)

\* an order of several items has its payment, the float sum being off
C1_Witness ==
    /\ gpc = "write"
    /\ \E i \in 1..Len(orders) :
          /\ Len(ItemsOf(orders[i].order_id)) >= 2
          /\ PaymentsOf(orders[i].order_id) # <<>>
          /\ totals[i] # ItemSum(ItemsOf(orders[i].order_id)) * UlpsPerCent

\* C2: every order's customer, every order item's order and product and
\* every payment's order is a generated one
C2_ReferencesExist ==
    /\ \A o \in Range(orders) :
          \E c \in Range(customers) : c.customer_id = o.customer_id
    /\ \A it \in Range(order_items) :
          /\ \E o \in Range(orders) : o.order_id = it.order_id
          /\ \E p \in Range(products) : p.product_id = it.product_id
    /\ \A pay \in Range(payments) :
          \E o \in Range(orders) : o.order_id = pay.order_id

C2_Witness ==
    /\ gpc = "done"
    /\ Len(customers) >= 2 /\ Len(orders) >= 2
    /\ order_items # <<>> /\ payments # <<>>
    /\ \E o \in Range(orders) : o.customer_id = 2

\* C3: with at least one product and max_items_per_order >= 1, every order
\* has between 1 and min(max_items_per_order, product count) items, of
\* pairwise distinct products, each with a quantity in [1,3] and the price of
\* its product
C3_ItemsOfEveryOrder ==
    (ItemsMade /\ cfg.products >= 1 /\ cfg.max_items >= 1) =>
        \A o \in Range(orders) :
            LET its == ItemsOf(o.order_id) IN
            /\ Len(its) >= 1
            /\ Len(its) <= Min(cfg.max_items, cfg.products)
            /\ \A a, b \in 1..Len(its) :
                  a # b => its[a].product_id # its[b].product_id
            /\ \A it \in Range(its) :
                  /\ it.quantity \in MinQuantity..MaxQuantity
                  /\ \E p \in Range(products) :
                        p.product_id = it.product_id /\ p.price = it.unit_price

\* an order with two items, of two products with different prices
C3_Witness ==
    /\ gpc = "done"
    /\ \E o \in Range(orders) :
          LET its == ItemsOf(o.order_id) IN
          Len(its) = 2 /\ its[1].unit_price # its[2].unit_price

\* C4: with a configured count that is zero, the generators run without an
\* error
C4_ZeroCountsRaiseNothing ==
    (0 \in {cfg.customers, cfg.products, cfg.orders, cfg.max_items})
        => gpc # "error"

\* C9: the ids of each collection are 1, 2, ... in sequence, and the
\* customers, products and orders are as many as configured
HasIds(seq, id) == \A i \in 1..Len(seq) : seq[i][id] = i

C9_SequentialIds ==
    /\ HasIds(customers, "customer_id")
    /\ HasIds(products, "product_id")
    /\ HasIds(orders, "order_id")
    /\ HasIds(order_items, "order_item_id")
    /\ HasIds(payments, "payment_id")
    /\ (gpc \notin {"customers"} => Len(customers) = cfg.customers)
    /\ (gpc \notin {"customers", "products"} => Len(products) = cfg.products)
    /\ (ItemsMade => Len(orders) = cfg.orders)

\* the items of two orders, one of them with two items, and two payments
C9_Witness ==
    /\ gpc = "done"
    /\ Len(orders) >= 2 /\ Len(payments) >= 2
    /\ \E i \in 1..Len(order_items) :
          order_items[i].order_id = 2 /\ order_items[i].order_item_id >= 2

Generated ==
    [customers |-> customers, products |-> products, orders |-> orders,
     order_items |-> order_items, payments |-> payments]

\* C5: main's load of the CSV files the generator wrote into a fresh store
\* raises no error, and when it is done every table has as many rows as the
\* generated collection
C5_FreshLoadCounts ==
    (lmode = "main" /\ input = "pristine" /\ prior = "absent") =>
        /\ lpc # "error"
        /\ (lpc = "done" =>
              \A t \in Tables : Cardinality(db.rows[t]) = Len(Generated[t]))

C5_Witness ==
    /\ lmode = "main" /\ input = "pristine" /\ prior = "absent"
    /\ lpc = "done"
    /\ Len(orders) >= 2 /\ Len(order_items) >= 2 /\ Len(payments) >= 2

\* C6: in a script on a new store opened by get_connection and create_tables,
\* while orders is not loaded and order_items.csv has a row, load_csv of
\* order_items does not succeed and inserts nothing, and when it was called
\* it raised a referential-integrity error
C6_ItemsBeforeOrdersRejected ==
    (/\ lmode = "script" /\ lpc # "idle" /\ prior = "absent"
     /\ "orders" \notin loaded
     /\ files["order_items"].rows # <<>>) =>
        /\ "order_items" \notin loaded
        /\ db.rows["order_items"] = {}
        /\ (lpc = "error" /\ lerr.table = "order_items" =>
              lerr.error = IntegrityError /\ lerr.count = 0)

\* load_csv of order_items failed for want of the orders alone
C6_Witness ==
    /\ lmode = "script" /\ lpc = "error" /\ prior = "absent"
    /\ lerr.table = "order_items" /\ lerr.error = IntegrityError
    /\ loaded = {"customers", "products"}
    /\ Len(files["order_items"].rows) >= 2

\* the store that holds exactly the rows of the CSV files
ExpectedRows(t) ==
    LET prepared == PreparedRows(files[t], LoadColumns[t], Converters[t]) IN
    { AsRow(LoadColumns[t], prepared[i]) : i \in 1..Len(prepared) }

\* C7: whatever the store held before, main's load of undamaged CSV files
\* raises no error and leaves the store with the five tables holding exactly
\* the rows of the CSV files
C7_LoadIsIdempotent ==
    (lmode = "main" /\ input = "pristine") =>
        /\ lpc # "error"
        /\ (lpc = "done" /\ damage = NoDamage =>
              /\ db.exists /\ db.schema
              /\ \A t \in Tables : db.rows[t] = ExpectedRows(t))

\* a second load, over the store a complete load left
C7_Witness ==
    /\ lmode = "main" /\ input = "pristine" /\ prior = "complete"
    /\ lpc = "done" /\ damage = NoDamage
    /\ Cardinality(db.rows["payments"]) >= 2

\* C8: on every connection foreign keys are enforced: after a statement no
\* row of order_items, payments or orders refers to a missing row
C8_ForeignKeysOnEveryConnection ==
    /\ ForeignKeysHold(db)
    /\ (qpc = "executed" => ForeignKeysHold(qview))

TableIndex(t) == CHOOSE k \in 1..Len(MainOrder) : MainOrder[k] = t

\* C10: when a conversion fails in main's load, no row of the failing table
\* was inserted, the tables loaded before it hold all the rows written to
\* their CSV files and the failing table and the later ones are empty
C10_CoercionFailureIsPerTable ==
    (lmode = "main" /\ lpc = "error" /\ lerr.error = ValueError) =>
        /\ lerr.count = 0
        /\ \A t \in Tables :
              IF TableIndex(t) < TableIndex(lerr.table)
              THEN db.rows[t] = Range(Generated[t])
              ELSE db.rows[t] = {}

\* the second row of orders.csv failed to convert, after the customers went in
C10_Witness ==
    /\ lmode = "main" /\ lpc = "error" /\ lerr.error = ValueError
    /\ lerr.table = "orders" /\ damage.table = "orders" /\ damage.row = 2
    /\ db.rows["customers"] # {}

====
